---- MODULE Spec2Model ----
(***************************************************************************)
(* A model of testwise-ai's log normaliser (app/parser.py), of its         *)
(* aggregator (app/summary.py) and of its root cause helpers               *)
(* (app/root_cause.py).                                                    *)
(*                                                                         *)
(* Text is modelled at the character level: a Python str is a sequence of  *)
(* one-character strings, so that str.strip, str.endswith and the two      *)
(* regular expressions of parse_txt are computed the way the code computes *)
(* them.  A Python value is a tagged record: PyStr(s), PyNone or NaN.      *)
(***************************************************************************)
EXTENDS Integers, Sequences, FiniteSets, TLC

\* ------------------------------------------------------------------------
\* Bounds of the model
\* ------------------------------------------------------------------------
MaxLines == 3

MaxRows == 2

MaxRepeatLines == 1

MaxCalls == 3

MaxRecords == 4

MaxTopN == 2

MaxChunkSize == 2

\* ------------------------------------------------------------------------
\* Python values
\* ------------------------------------------------------------------------
PyStr(s) == [t |-> "str", v |-> s]

PyNone == [t |-> "none", v |-> <<>>]

NaN == [t |-> "nan", v |-> <<>>]

IsStr(x) == x.t = "str"

\* ------------------------------------------------------------------------
\* Character classes of the regular expressions
\* ------------------------------------------------------------------------
Digits == {"0", "1", "2", "3", "4", "5", "6", "7", "8", "9"}

LowerCase ==
    {"a", "b", "c", "d", "e", "f", "g", "h", "i", "j", "k", "l", "m",
     "n", "o", "p", "q", "r", "s", "t", "u", "v", "w", "x", "y", "z"}

UpperCase ==
    {"A", "B", "C", "D", "E", "F", "G", "H", "I", "J", "K", "L", "M",
     "N", "O", "P", "Q", "R", "S", "T", "U", "V", "W", "X", "Y", "Z"}

\* \w
WordChars == Digits \cup LowerCase \cup UpperCase \cup {"_"}

\* [\d\-: ]
TimestampChars == Digits \cup {"-", ":", " "}

\* what str.strip() removes
Whitespace == {" ", "\t", "\n", "\r", "\f"}

\* . (any character but a newline); "any" is the marker of this class
AnyChar == {"any"}

InClass(ch, class) == IF class = AnyChar THEN ch # "\n" ELSE ch \in class

\* ------------------------------------------------------------------------
\* str helpers
\* ------------------------------------------------------------------------
SetMax(S) == CHOOSE x \in S : \A y \in S : y <= x

SetMin(S) == CHOOSE x \in S : \A y \in S : x <= y

\* s.endswith(suffix)
EndsWith(s, suffix) ==
    /\ Len(suffix) <= Len(s)
    /\ \A k \in 1..Len(suffix) : s[Len(s) - Len(suffix) + k] = suffix[k]

\* s.strip()
Strip(s) ==
    LET keep == {i \in 1..Len(s) : s[i] \notin Whitespace}
    IN  IF keep = {} THEN <<>> ELSE SubSeq(s, SetMin(keep), SetMax(keep))

\* lit occurs in s at position i
HasLit(s, i, lit) ==
    /\ i + Len(lit) - 1 <= Len(s)
    /\ \A k \in 1..Len(lit) : s[i + k - 1] = lit[k]

\* the position after the longest run of class characters starting at i
SpanEnd(s, i, class) ==
    SetMin({j \in i..(Len(s) + 1) : j = Len(s) + 1 \/ ~InClass(s[j], class)})

\* ------------------------------------------------------------------------
\* A small regular-expression engine for re.match (anchored at the start,
\* not at the end).  A pattern is a sequence of items:
\*   Lit(l)        the literal text l
\*   Plus(g, c)    (?P<g>[c]+), greedy
\*   Alt(g, as)    (?P<g>a1|a2|...), alternatives tried in order
\*   Opt(p)        (?:p)?, greedy
\* In both patterns of parse_txt every greedy class is followed by a literal
\* whose first character is outside the class, and the optional group is
\* last, so the greedy choice is the only one backtracking could settle on.
\* ------------------------------------------------------------------------
Lit(l) == [k |-> "lit", l |-> l]

Plus(g, c) == [k |-> "plus", g |-> g, c |-> c]

Alt(g, as) == [k |-> "alt", g |-> g, as |-> as]

Opt(p) == [k |-> "opt", p |-> p]

NoMatch == [ok |-> FALSE, pos |-> 0, groups |-> <<>>]

RECURSIVE GroupNames(_)
GroupNames(pat) ==
    IF pat = <<>> THEN {}
    ELSE LET it == Head(pat)
             here == CASE it.k = "plus" -> {it.g}
                       [] it.k = "alt" -> {it.g}
                       [] it.k = "opt" -> GroupNames(it.p)
                       [] OTHER -> {}
         IN  here \cup GroupNames(Tail(pat))

RECURSIVE MatchFrom(_, _, _, _)
MatchFrom(pat, s, pos, groups) ==
    IF pat = <<>> THEN [ok |-> TRUE, pos |-> pos, groups |-> groups]
    ELSE
      LET it == Head(pat)
          rest == Tail(pat)
      IN  CASE it.k = "lit" ->
                 IF HasLit(s, pos, it.l)
                 THEN MatchFrom(rest, s, pos + Len(it.l), groups)
                 ELSE NoMatch
            [] it.k = "plus" ->
                 LET e == SpanEnd(s, pos, it.c)
                 IN  IF e > pos
                     THEN MatchFrom(rest, s, e,
                            [groups EXCEPT ![it.g] = PyStr(SubSeq(s, pos, e - 1))])
                     ELSE NoMatch
            [] it.k = "alt" ->
                 LET hits == {a \in 1..Len(it.as) : HasLit(s, pos, it.as[a])}
                 IN  IF hits = {} THEN NoMatch
                     ELSE LET a == it.as[SetMin(hits)]
                          IN  MatchFrom(rest, s, pos + Len(a),
                                [groups EXCEPT ![it.g] = PyStr(a)])
            [] it.k = "opt" ->
                 LET sub == MatchFrom(it.p, s, pos, groups)
                 IN  IF sub.ok
                     THEN MatchFrom(rest, s, sub.pos, sub.groups)
                     ELSE MatchFrom(rest, s, pos, groups)

\* pattern.match(s): a match object (ok, groupdict) or None (ok = FALSE)
ReMatch(pat, s) ==
    MatchFrom(pat, s, 1, [g \in GroupNames(pat) |-> PyNone])

\* ------------------------------------------------------------------------
\* parse_txt: the two patterns
\* ------------------------------------------------------------------------
OpenBracket == <<"[">>

InfoLiteral ==
    <<"]", " ", "[", "I", "N", "F", "O", "]", " ", "R", "u", "n", "n", "i",
      "n", "g", " ", "t", "e", "s", "t", ":", " ">>

TypeLiteral == <<" ", "[", "t", "y", "p", "e", "=">>

CloseBracket == <<"]">>

ResultLiteral == <<"]", " ", "[", "R", "E", "S", "U", "L", "T", "]", " ">>

ModuleOpen == <<" ", "[">>

ModuleClose == <<"]", " ">>

PASS == <<"P", "A", "S", "S">>

FAIL == <<"F", "A", "I", "L">>

ErrorSep == <<" ", "-", " ">>

\* \[(?P<timestamp>[\d\-: ]+)\] \[INFO\] Running test: (?P<test_case>\w+)
\*   \[type=(?P<test_type>\w+)\]
info_pattern ==
    << Lit(OpenBracket), Plus("timestamp", TimestampChars), Lit(InfoLiteral),
       Plus("test_case", WordChars), Lit(TypeLiteral),
       Plus("test_type", WordChars), Lit(CloseBracket) >>

\* \[(?P<timestamp>[\d\-: ]+)\] \[RESULT\] (?P<test_case>\w+)
\*   \[(?P<module>\w+)\] (?P<status>PASS|FAIL)(?: - (?P<error>.+))?
result_pattern ==
    << Lit(OpenBracket), Plus("timestamp", TimestampChars), Lit(ResultLiteral),
       Plus("test_case", WordChars), Lit(ModuleOpen),
       Plus("module", WordChars), Lit(ModuleClose),
       Alt("status", <<PASS, FAIL>>),
       Opt(<< Lit(ErrorSep), Plus("error", AnyChar) >>) >>

\* ------------------------------------------------------------------------
\* dict helpers (a dict is a function from its keys)
\* ------------------------------------------------------------------------
EmptyDict == [k \in {} |-> <<>>]

DictSet(d, key, val) ==
    [k \in (DOMAIN d) \cup {key} |-> IF k = key THEN val ELSE d[k]]

DictGet(d, key, default) == IF key \in DOMAIN d THEN d[key] ELSE default

\* ------------------------------------------------------------------------
\* bytes and text: UTF-8 of the characters the model uses.  Every character
\* is ASCII (one byte, written as the character itself) except the arrow
\* U+25B6 of the decorated result lines, which is three bytes.
\* ------------------------------------------------------------------------
Arrow == "U+25B6"

ArrowBytes == <<"xE2", "x96", "xB6">>

PyBytes(b) == [t |-> "bytes", v |-> b]

RECURSIVE Encode(_)
Encode(s) ==
    IF s = <<>> THEN <<>>
    ELSE (IF Head(s) = Arrow THEN ArrowBytes ELSE <<Head(s)>>) \o Encode(Tail(s))

\* bytes.decode("utf-8")
RECURSIVE Decode(_)
Decode(b) ==
    IF b = <<>> THEN <<>>
    ELSE IF HasLit(b, 1, ArrowBytes)
         THEN <<Arrow>> \o Decode(SubSeq(b, 4, Len(b)))
         ELSE <<Head(b)>> \o Decode(Tail(b))

Newline == <<"\n">>

FormFeed == "\f"

\* the characters inside a line at which str.splitlines() cuts, while
\* bytes.splitlines() and readlines() cut at line ends only: the form feed
\* (and \v, \x1c-\x1e, \x85, U+2028, U+2029, which no input holds)
TextLineBoundaries == {FormFeed}

\* the pieces of s between the separators
RECURSIVE SplitAt(_, _)
SplitAt(s, seps) ==
    LET cuts == {i \in 1..Len(s) : s[i] \in seps}
    IN  IF cuts = {} THEN <<s>>
        ELSE <<SubSeq(s, 1, SetMin(cuts) - 1)>>
               \o SplitAt(SubSeq(s, SetMin(cuts) + 1, Len(s)), seps)

\* str.splitlines() of the text from its n-th line on: the lines, and for
\* each the line of the text it is cut from
RECURSIVE TextLinesFrom(_, _)
TextLinesFrom(text, n) ==
    IF n > Len(text) THEN <<>>
    ELSE LET pieces == SplitAt(text[n], TextLineBoundaries)
         IN  [k \in 1..Len(pieces) |-> [line |-> PyStr(pieces[k]), source |-> n]]
               \o TextLinesFrom(text, n + 1)

\* parse_txt, lines 80-84: the lines of the input.  A stream is read whole
\* and split with splitlines(), which drops the line ends; a path is opened
\* and read with readlines(), which keeps them.  A bytes stream yields bytes.
ReadLines(fi) ==
    IF fi.kind = "path"
    THEN [n \in 1..Len(fi.text) |-> PyStr(fi.text[n] \o Newline)]
    ELSE IF fi.kind = "bytes"
         THEN [n \in 1..Len(fi.text) |-> PyBytes(Encode(fi.text[n]))]
         ELSE LET cut == TextLinesFrom(fi.text, 1)
              IN  [k \in 1..Len(cut) |-> cut[k].line]

\* for each line that ReadLines yields, the line of the input it is from
LineSources(fi) ==
    IF fi.kind = "text"
    THEN LET cut == TextLinesFrom(fi.text, 1)
         IN  [k \in 1..Len(cut) |-> cut[k].source]
    ELSE [n \in 1..Len(fi.text) |-> n]

\* parse_txt, lines 99-100
DecodeLine(line) == IF line.t = "bytes" THEN PyStr(Decode(line.v)) ELSE line

\* parse_txt, lines 99-101 and 107: pattern.match(line.strip())
MatchLine(pat, line) == ReMatch(pat, Strip(DecodeLine(line).v))

\* a map that outlives the call: the one the earlier call left
KeepTestTypeMap(earlier) == earlier

\* parse_txt, line 95: test_type_map = {}, a local of the call
NewTestTypeMap(earlier) == EmptyDict

\* a map that keeps the first type declared for a test case
MapUpdateKeepFirst(map, d) ==
    IF d["test_case"].v \in DOMAIN map THEN map
    ELSE DictSet(map, d["test_case"].v, d["test_type"].v)

\* parse_txt, lines 103-104: test_type_map[d["test_case"]] = d["test_type"]
MapUpdate(map, d) == DictSet(map, d["test_case"].v, d["test_type"].v)

\* a lookup that never finds the type
LookupTypeNone(map, d) == PyStr(<<>>)

\* a lookup that uses the entry up: the map without the test case of d
MapWithoutCase(map, d) ==
    [k \in (DOMAIN map) \ {d["test_case"].v} |-> map[k]]

\* parse_txt, line 110: dict.get reads the map and leaves every entry in it
MapAfterGet(map, d) == map

\* parse_txt, line 110: test_type_map.get(d["test_case"], "")
LookupType(map, d) == PyStr(DictGet(map, d["test_case"].v, <<>>))

\* parse_txt, lines 111-112
ErrorOrEmpty(d) ==
    IF "error" \notin DOMAIN d \/ d["error"] = PyNone
    THEN PyStr(<<>>) ELSE d["error"]

\* parse_txt, lines 109-113: the dict appended to results
ResultRecord(map, d) ==
    LET d1 == DictSet(d, "test_type", LookupType(map, d))
    IN  DictSet(d1, "error", ErrorOrEmpty(d1))

\* an append that shares the type with the records already collected for
\* the same test case: they take the type of the record appended
AppendRetyping(recs, d) ==
    Append([k \in 1..Len(recs) |->
              IF recs[k]["test_case"] = d["test_case"]
              THEN DictSet(recs[k], "test_type", d["test_type"])
              ELSE recs[k]],
           d)

\* parse_txt, line 113: results.append(d)
AppendRecord(recs, d) == Append(recs, d)

\* ------------------------------------------------------------------------
\* DataFrames: the ordered column names and the rows (dicts over them)
\* ------------------------------------------------------------------------
EXPECTED_COLUMNS ==
    <<"timestamp", "test_case", "module", "status", "error", "test_type">>

SeqSet(s) == {s[n] : n \in 1..Len(s)}

\* the key order of a dict of results: the groups of result_pattern in the
\* order they open, then the key test_type that line 110 adds
ResultKeys == <<"timestamp", "test_case", "module", "status", "error", "test_type">>

\* pd.DataFrame(results): the columns are the keys of the dicts, in order;
\* no dicts, no columns
DataFrame(recs) ==
    [columns |-> IF recs = <<>> THEN <<>> ELSE ResultKeys, rows |-> recs]

\* df[col] = "" for one column
AddColumn(df, col) ==
    [columns |-> Append(df.columns, col),
     rows |-> [n \in 1..Len(df.rows) |-> DictSet(df.rows[n], col, PyStr(<<>>))]]

\* for col in EXPECTED_COLUMNS: if col not in df.columns: df[col] = ""
RECURSIVE BackfillFrom(_, _)
BackfillFrom(df, n) ==
    IF n > Len(EXPECTED_COLUMNS) THEN df
    ELSE IF EXPECTED_COLUMNS[n] \in SeqSet(df.columns)
         THEN BackfillFrom(df, n + 1)
         ELSE BackfillFrom(AddColumn(df, EXPECTED_COLUMNS[n]), n + 1)

Backfill(df) == BackfillFrom(df, 1)

\* a return of the table as it is, without the projection
ProjectNothing(df) == df

\* df[EXPECTED_COLUMNS]
Project(df) ==
    [columns |-> EXPECTED_COLUMNS,
     rows |-> [n \in 1..Len(df.rows) |->
                 [c \in SeqSet(EXPECTED_COLUMNS) |-> df.rows[n][c]]]]

\* parse_txt, lines 115-119
ParseTxtResult(recs) == Project(Backfill(DataFrame(recs)))

\* parse_file, lines 60-64
Normalize(df) == Project(Backfill(df))

\* ------------------------------------------------------------------------
\* parse_file: the delimited-table branch
\* ------------------------------------------------------------------------
DotCsv == <<".", "c", "s", "v">>

DotTxt == <<".", "t", "x", "t">>

DotLog == <<".", "l", "o", "g">>

UnsupportedMessage ==
    <<"U", "n", "s", "u", "p", "p", "o", "r", "t", "e", "d", " ", "f", "i",
      "l", "e", " ", "t", "y", "p", "e", ":", " ">>

MissingMessage ==
    <<"M", "i", "s", "s", "i", "n", "g", " ", "e", "x", "p", "e", "c", "t",
      "e", "d", " ", "c", "o", "l", "u", "m", "n", "s", ":", " ">>

CellNA == <<"N", "A">>

CellNull == <<"n", "u", "l", "l">>

CellNULL == <<"N", "U", "L", "L">>

CellNaN == <<"N", "a", "N">>

\* pd.read_csv turns an empty cell, and a cell holding one of its default
\* missing-value markers, into NaN; any other cell of the model stays text
NaValues == {<<>>, CellNA, CellNull, CellNULL, CellNaN}

ReadCsvCell(text) == IF text \in NaValues THEN NaN ELSE PyStr(text)

\* the position of column col in a header without repeated names
ColumnIndex(header, col) == CHOOSE n \in 1..Len(header) : header[n] = col

\* pd.read_csv(file_input): the first line names the columns
ReadCsv(csv) ==
    [columns |-> csv.header,
     rows |-> [n \in 1..Len(csv.rows) |->
                 [c \in SeqSet(csv.header) |->
                    ReadCsvCell(csv.rows[n][ColumnIndex(csv.header, c)])]]]

\* the test on the columns inverted: the columns that are present
PresentColumns(df) ==
    LET Present(col) == col \in SeqSet(df.columns)
    IN  SelectSeq(EXPECTED_COLUMNS, Present)

\* [col for col in EXPECTED_COLUMNS if col not in df.columns]
MissingColumns(df) ==
    LET Absent(col) == col \notin SeqSet(df.columns)
    IN  SelectSeq(EXPECTED_COLUMNS, Absent)

\* every path that is not a .csv taken for text
IsAnyPath(name) == TRUE

\* str.endswith tests of parse_file, lines 44 and 53
IsCsvPath(name) == EndsWith(name, DotCsv)

IsTxtPath(name) == EndsWith(name, DotTxt) \/ EndsWith(name, DotLog)

ValueError(msg, arg) == [type |-> "ValueError", msg |-> msg, arg |-> arg]

NoException == [type |-> "none", msg |-> <<>>, arg |-> <<>>]

NoFrame == [columns |-> <<>>, rows |-> <<>>]

\* ------------------------------------------------------------------------
\* The inputs: file names
\* ------------------------------------------------------------------------
PathCsv == <<"r", "u", "n", ".", "c", "s", "v">>

PathUpperCsv == <<"R", "U", "N", ".", "C", "S", "V">>

PathTxt == <<"r", "u", "n", ".", "t", "x", "t">>

PathLog == <<"r", "u", "n", ".", "l", "o", "g">>

PathMixedLog == <<"r", "u", "n", ".", "L", "o", "g">>

PathXyz == <<"r", "u", "n", ".", "x", "y", "z">>

PathNoExt == <<"r", "u", "n">>

StreamLog == <<"f", "a", "k", "e", ".", "l", "o", "g">>

StreamCsv == <<"u", "p", "l", "o", "a", "d", ".", "c", "s", "v">>

Paths ==
    {PathCsv, PathUpperCsv, PathTxt, PathLog, PathMixedLog, PathXyz, PathNoExt}

\* the open streams: what they yield and their name attribute
Streams == {<<"text", StreamLog>>, <<"bytes", StreamLog>>, <<"text", StreamCsv>>}

\* ------------------------------------------------------------------------
\* The inputs: lines of text, built from the line grammars
\* ------------------------------------------------------------------------
Stamp == <<"0", "7", "-", "1", "4", " ", "0", "2", ":", "3", "5">>

CaseT1 == <<"t", "1">>

CaseT2 == <<"t", "2">>

CaseAdc ==
    <<"t", "e", "s", "t", "_", "a", "d", "c", "_", "v", "o", "l", "t", "a",
      "g", "e">>

CaseCan == <<"t", "e", "s", "t", "_", "c", "a", "n", "_", "b", "u", "s">>

ModCore == <<"C", "O", "R", "E">>

ModComm == <<"C", "O", "M", "M">>

TypeSystem == <<"S", "y", "s", "t", "e", "m">>

TypeUnit == <<"U", "n", "i", "t">>

ErrTimeout == <<"T", "i", "m", "e", "o", "u", "t", "E", "r", "r", "o", "r">>

ErrNull ==
    <<"N", "u", "l", "l", "R", "e", "f", "e", "r", "e", "n", "c", "e", "E",
      "x", "c", "e", "p", "t", "i", "o", "n">>

PASSED == <<"P", "A", "S", "S", "E", "D">>

FAILED == <<"F", "A", "I", "L", "E", "D">>

LowerPass == <<"p", "a", "s", "s">>

SKIP == <<"S", "K", "I", "P">>

Garbage ==
    <<"i", "n", "v", "a", "l", "i", "d", "_", "l", "i", "n", "e", "_", "w",
      "i", "t", "h", "o", "u", "t", "_", "r", "e", "s", "u", "l", "t">>

Blanks == <<" ", " ">>

SimpleSep == <<":", " ">>

InfoNoStamp ==
    <<"[", "I", "N", "F", "O", "]", " ", "R", "u", "n", "n", "i", "n", "g",
      " ", "t", "e", "s", "t", ":", " ">>

ResultNoStamp == <<"[", "R", "E", "S", "U", "L", "T", "]", " ">>

DecoratedLiteral == <<"]", " ">>

DecoratedResult == <<" ", "R", "e", "s", "u", "l", "t", ":", " ">>

Bar == <<" ", "|", " ">>

DecoratedModule == <<"M", "o", "d", "u", "l", "e", ":", " ">>

CellExtra == <<"e", "x", "t", "r", "a">>

\* [<timestamp>] [INFO] Running test: <test_case> [type=<test_type>]
InfoLine(tc, ty) ==
    OpenBracket \o Stamp \o InfoLiteral \o tc \o TypeLiteral \o ty \o CloseBracket

\* [<timestamp>] [RESULT] <test_case> [<module>] <status>
BracketedLine(tc, mod, st) ==
    OpenBracket \o Stamp \o ResultLiteral \o tc \o ModuleOpen \o mod
        \o ModuleClose \o st

\* ... [type=<test_type>]
WithType(line, ty) == line \o TypeLiteral \o ty \o CloseBracket

\* ... - <error>
WithError(line, err) == line \o ErrorSep \o err

\* <test_case>: <status>
SimpleLine(tc, st) == tc \o SimpleSep \o st

\* [<timestamp>] (arrow) Result: <test_case> | <status> | Module: <module>
DecoratedLine(tc, st, mod) ==
    OpenBracket \o Stamp \o DecoratedLiteral \o <<Arrow>> \o DecoratedResult
        \o tc \o Bar \o st \o Bar \o DecoratedModule \o mod

\* [INFO] Running test: <test_case> [type=<test_type>], no timestamp
BareInfoLine(tc, ty) ==
    InfoNoStamp \o tc \o TypeLiteral \o ty \o CloseBracket

\* [RESULT] <test_case> [<module>] <status>, no timestamp
BareResultLine(tc, mod, st) ==
    ResultNoStamp \o tc \o ModuleOpen \o mod \o ModuleClose \o st

Cases == {CaseT1, CaseT2}

Types == {TypeSystem, TypeUnit}

\* informational and result lines of two test cases, and a line of noise
CorrelationLines ==
    { InfoLine(CaseT1, TypeSystem), InfoLine(CaseT1, TypeUnit),
      InfoLine(CaseT2, TypeSystem),
      BracketedLine(CaseT1, ModCore, PASS),
      WithError(BracketedLine(CaseT2, ModComm, FAIL), ErrTimeout),
      Garbage }

\* noise, blank lines and a padded well-formed line
ToleranceLines ==
    { Garbage, <<>>, Blanks,
      Blanks \o BracketedLine(CaseT1, ModCore, PASS) \o Blanks }

\* status words other than PASS and FAIL, next to a well-formed line
StatusLines ==
    { BracketedLine(CaseT1, ModCore, PASSED),
      WithError(BracketedLine(CaseT2, ModComm, FAILED), ErrTimeout),
      BracketedLine(CaseT1, ModCore, LowerPass),
      BracketedLine(CaseT1, ModCore, SKIP),
      WithError(BracketedLine(CaseT2, ModComm, FAIL), ErrTimeout) }

\* simple result lines, and bracketed lines without a timestamp
SimpleLines ==
    { SimpleLine(CaseAdc, PASS),
      WithError(SimpleLine(CaseCan, FAIL), ErrTimeout),
      BareInfoLine(CaseT1, TypeSystem),
      BareResultLine(CaseT1, ModCore, PASS) }

\* decorated result lines, and bracketed lines carrying a type segment
TypedLines ==
    { DecoratedLine(CaseT1, PASS, ModCore),
      WithError(WithType(BracketedLine(CaseT2, ModComm, FAIL), TypeSystem), ErrNull),
      WithType(BracketedLine(CaseT1, ModCore, PASS), TypeUnit) }

\* two result lines with a form feed between them, next to a plain one
FormFeedLines ==
    { BracketedLine(CaseT1, ModCore, PASS) \o <<FormFeed>>
        \o BracketedLine(CaseT2, ModComm, FAIL),
      BracketedLine(CaseT2, ModComm, FAIL) }

LineFamilies ==
    {CorrelationLines, ToleranceLines, StatusLines, SimpleLines, TypedLines,
     FormFeedLines}

SeqsUpTo(S, n) == UNION {[1..k -> S] : k \in 0..n}

\* the text files: up to MaxLines lines of one family
TextContents == UNION {SeqsUpTo(F, MaxLines) : F \in LineFamilies}

\* every line of every family, as each kind of input hands it to the loop
LineValues ==
    UNION {{PyStr(l), PyStr(l \o Newline), PyBytes(Encode(l))} :
             l \in UNION LineFamilies}

\* the matches of those lines, computed once
InfoMatches == [line \in LineValues |-> MatchLine(info_pattern, line)]

ResultMatches == [line \in LineValues |-> MatchLine(result_pattern, line)]

\* parse_txt, line 101: info_pattern.match(line.strip())
InfoMatch(line) ==
    IF line \in LineValues THEN InfoMatches[line]
    ELSE MatchLine(info_pattern, line)

\* parse_txt, line 107: result_pattern.match(line.strip())
ResultMatch(line) ==
    IF line \in LineValues THEN ResultMatches[line]
    ELSE MatchLine(result_pattern, line)

\* ------------------------------------------------------------------------
\* The inputs: delimited tables
\* ------------------------------------------------------------------------
HeaderCanonical == EXPECTED_COLUMNS

HeaderReversed ==
    <<"test_type", "error", "status", "module", "test_case", "timestamp">>

HeaderExtra ==
    <<"timestamp", "extra", "test_case", "module", "status", "error", "test_type">>

HeaderTwo == <<"case_name", "status">>

HeaderNoType == <<"timestamp", "test_case", "module", "status", "error">>

HeaderCased ==
    <<"timestamp", " test_case ", "module", "Status", "error", "test_type">>

Headers ==
    {HeaderCanonical, HeaderReversed, HeaderExtra, HeaderTwo, HeaderNoType,
     HeaderCased}

RowPass ==
    [timestamp |-> Stamp, test_case |-> CaseT1, module |-> ModCore,
     status |-> PASS, error |-> <<>>, test_type |-> <<>>]

RowFail ==
    [timestamp |-> Stamp, test_case |-> CaseT2, module |-> ModComm,
     status |-> FAIL, error |-> ErrTimeout, test_type |-> TypeSystem]

RowSkip ==
    [timestamp |-> Stamp, test_case |-> CaseT1, module |-> ModCore,
     status |-> SKIP, error |-> CellNull, test_type |-> TypeUnit]

\* a failure whose error cell is empty
RowFailBare ==
    [timestamp |-> Stamp, test_case |-> CaseT1, module |-> ModCore,
     status |-> FAIL, error |-> <<>>, test_type |-> <<>>]

RowTemplates == {RowPass, RowFail, RowSkip, RowFailBare}

\* the cell a row holds under a column of the header
CellUnder(row, col) ==
    CASE col \in DOMAIN row -> row[col]
      [] col \in {"case_name", " test_case "} -> row["test_case"]
      [] col = "Status" -> row["status"]
      [] OTHER -> CellExtra

CsvFile(header, rows) ==
    [header |-> header,
     rows |-> [n \in 1..Len(rows) |->
                 [c \in 1..Len(header) |-> CellUnder(rows[n], header[c])]]]

CsvContents ==
    {CsvFile(h, rs) : h \in Headers, rs \in SeqsUpTo(RowTemplates, MaxRows)}

\* ------------------------------------------------------------------------
\* The argument of parse_file: a path (str) naming a file, or an open
\* stream of text or of bytes with a name attribute
\* ------------------------------------------------------------------------
FileInput(kind, name, table, text) ==
    [kind |-> kind, name |-> name, table |-> table, text |-> text]

NoTable == [header |-> <<>>, rows |-> <<>>]

\* a file named *.csv in any letter case holds a table, any other file text
HoldsTable(name) ==
    LET n == Len(name)
    IN  n >= 4 /\ SubSeq(name, n - 3, n) \in
          {DotCsv, <<".", "C", "S", "V">>}

FileInputs ==
    {FileInput("path", p, c, <<>>) :
        p \in {q \in Paths : HoldsTable(q)}, c \in CsvContents}
    \cup
    {FileInput("path", p, NoTable, c) :
        p \in {q \in Paths : ~HoldsTable(q)}, c \in TextContents}
    \cup
    {FileInput(s[1], s[2], NoTable, c) : s \in Streams, c \in TextContents}

\* ------------------------------------------------------------------------
\* State
\* ------------------------------------------------------------------------
VARIABLES
    file_input,     \* the argument of parse_file
    pc,             \* "call", "loop" (inside parse_txt), "returned", "raised"
    lines,          \* parse_txt: lines
    next_line,      \* parse_txt: the position of the for loop in lines
    test_type_map,  \* parse_txt: test_type_map
    results,        \* parse_txt: results
    origin,         \* for each dict of results, the line that produced it
    ret,            \* the DataFrame parse_file returned
    exc,            \* the exception parse_file raised
    reads,          \* how often the input was opened or read
    calls,          \* the earlier calls of parse_file: argument and outcome
    log_df,         \* the table handed to summary.py and root_cause.py
    no_llm,         \* the environment: TESTWISE_NO_LLM is "1"
    op,             \* the function of summary.py or root_cause.py that ran
    args,           \* its arguments besides the table
    out,            \* how it ended: what it returned or raised
    client_calls    \* the calls of client.chat.completions.create it made

vars ==
    <<file_input, pc, lines, next_line, test_type_map, results, origin, ret,
      exc, reads, calls, log_df, no_llm, op, args, out, client_calls>>

parse_vars ==
    <<file_input, pc, lines, next_line, test_type_map, results, origin, ret,
      exc, reads, calls>>

summary_vars == <<log_df, no_llm, op, args, out, client_calls>>

\* an argument record of a function that was not called
NoArgs ==
    [top_n |-> 0, chunk_size |-> 0,
     error_summary |-> [columns |-> <<>>, rows |-> <<>>]]

\* a function returned value v, or raised an exception with message v
Returned(v) == [raised |-> FALSE, v |-> v]

Raised(msg) == [raised |-> TRUE, v |-> msg]

NoOutcome == [result |-> Returned(<<>>), summaries |-> <<>>]

\* summary.py and root_cause.py at rest, while parse_file runs
SummaryIdle ==
    /\ log_df = [columns |-> <<>>, rows |-> <<>>]
    /\ no_llm = FALSE
    /\ op = "none"
    /\ args = NoArgs
    /\ out = NoOutcome
    /\ client_calls = <<>>

Init ==
    /\ file_input \in FileInputs
    /\ pc = "call"
    /\ lines = <<>>
    /\ next_line = 1
    /\ test_type_map = EmptyDict
    /\ results = <<>>
    /\ origin = <<>>
    /\ ret = NoFrame
    /\ exc = NoException
    /\ reads = 0
    /\ calls = <<>>
    /\ SummaryIdle

\* ------------------------------------------------------------------------
\* parse_file
\* ------------------------------------------------------------------------
\* line 43: isinstance(file_input, str)
IsPath == file_input.kind = "path"

\* lines 43-52: a path ending in .csv
ParseFileCsv ==
    /\ pc = "call"
    /\ IsPath /\ IsCsvPath(file_input.name)
    /\ reads' = reads + 1
    /\ LET df == ReadCsv(file_input.table)
           missing == MissingColumns(df)
       IN  IF missing # <<>>
           THEN /\ exc' = ValueError(MissingMessage, missing)
                /\ pc' = "raised"
                /\ ret' = ret
           ELSE /\ ret' = Project(Backfill(df))
                /\ pc' = "returned"
                /\ exc' = exc
    /\ UNCHANGED <<file_input, lines, next_line, test_type_map, results, origin,
                   calls>>
    /\ UNCHANGED summary_vars

\* lines 55-56: a path with any other ending
ParseFileUnsupported ==
    /\ pc = "call"
    /\ IsPath
    /\ ~IsCsvPath(file_input.name) /\ ~IsTxtPath(file_input.name)
    /\ exc' = ValueError(UnsupportedMessage, file_input.name)
    /\ pc' = "raised"
    /\ UNCHANGED <<file_input, lines, next_line, test_type_map, results, origin,
                   ret, reads, calls>>
    /\ UNCHANGED summary_vars

\* lines 53-54 and 57-58 calling parse_txt, lines 80-96
ParseTxtOpen ==
    /\ pc = "call"
    /\ \/ ~IsPath
       \/ IsPath /\ ~IsCsvPath(file_input.name) /\ IsTxtPath(file_input.name)
    /\ lines' = ReadLines(file_input)
    /\ reads' = reads + 1
    /\ next_line' = 1
    /\ test_type_map' = NewTestTypeMap(test_type_map)
    /\ results' = <<>>
    /\ origin' = <<>>
    /\ pc' = "loop"
    /\ UNCHANGED <<file_input, ret, exc, calls>>
    /\ UNCHANGED summary_vars

\* parse_txt, lines 98-113: one iteration of the loop over lines
ParseTxtLine ==
    /\ pc = "loop"
    /\ next_line <= Len(lines)
    /\ LET line == lines[next_line]
           info_match == InfoMatch(line)
           result_match == ResultMatch(line)
       IN  IF info_match.ok
           THEN /\ test_type_map' = MapUpdate(test_type_map, info_match.groups)
                /\ UNCHANGED <<results, origin>>
           ELSE IF result_match.ok
                THEN /\ results' = AppendRecord(results,
                                      ResultRecord(test_type_map, result_match.groups))
                     /\ origin' = Append(origin,
                                     LineSources(file_input)[next_line])
                     /\ test_type_map' = MapAfterGet(test_type_map,
                                                    result_match.groups)
                ELSE UNCHANGED <<test_type_map, results, origin>>
    /\ next_line' = next_line + 1
    /\ UNCHANGED <<file_input, pc, lines, ret, exc, reads, calls>>
    /\ UNCHANGED summary_vars

\* parse_txt, lines 115-119, then parse_file, lines 60-64
ParseTxtReturn ==
    /\ pc = "loop"
    /\ next_line > Len(lines)
    /\ ret' = Normalize(ParseTxtResult(results))
    /\ pc' = "returned"
    /\ UNCHANGED <<file_input, lines, next_line, test_type_map, results, origin,
                   exc, reads, calls>>
    /\ UNCHANGED summary_vars

Next ==
    \/ ParseFileCsv
    \/ ParseFileUnsupported
    \/ ParseTxtOpen
    \/ ParseTxtLine
    \/ ParseTxtReturn

Spec == Init /\ [][Next]_vars

\* ------------------------------------------------------------------------
\* parse_file called again and again by one process (the tests and every
\* upload of the UI do so).  The locals of the call that ended are left as
\* they were; the call that follows binds its own.
\* ------------------------------------------------------------------------
RepeatLines ==
    {InfoLine(CaseT1, TypeSystem), BracketedLine(CaseT1, ModCore, PASS)}

\* log files of up to MaxRepeatLines lines
RepeatInputs ==
    {FileInput("path", PathLog, NoTable, c) :
        c \in SeqsUpTo(RepeatLines, MaxRepeatLines)}

InitRepeat ==
    /\ file_input \in RepeatInputs
    /\ pc = "call"
    /\ lines = <<>>
    /\ next_line = 1
    /\ test_type_map = EmptyDict
    /\ results = <<>>
    /\ origin = <<>>
    /\ ret = NoFrame
    /\ exc = NoException
    /\ reads = 0
    /\ calls = <<>>
    /\ SummaryIdle

\* the caller keeps what parse_file gave it and calls parse_file once more
ParseFileAgain ==
    /\ pc \in {"returned", "raised"}
    /\ Len(calls) + 1 < MaxCalls
    /\ calls' = Append(calls, [file_input |-> file_input, ret |-> ret,
                               exc |-> exc])
    /\ file_input' \in RepeatInputs
    /\ pc' = "call"
    /\ ret' = NoFrame
    /\ exc' = NoException
    /\ UNCHANGED <<lines, next_line, test_type_map, results, origin, reads>>
    /\ UNCHANGED summary_vars

\* the inputs are log files, so that every call takes the free-text path
NextRepeat ==
    \/ ParseTxtOpen
    \/ ParseTxtLine
    \/ ParseTxtReturn
    \/ ParseFileAgain

SpecRepeat == InitRepeat /\ [][NextRepeat]_vars

\* ========================================================================
\* summary.py and root_cause.py
\* ========================================================================

\* ------------------------------------------------------------------------
\* Program constants
\* ------------------------------------------------------------------------
\* generate_llm_summary(..., chunk_size=50)
DefaultChunkSize == 50

\* extract_top_errors_with_examples(df, top_n=5)
DefaultTopN == 5

\* .head(3): the examples kept for an error
MaxExamples == 3

\* ------------------------------------------------------------------------
\* pandas on a table of records
\* ------------------------------------------------------------------------
Min(a, b) == IF a <= b THEN a ELSE b

\* s.head(n) for n >= 0
FirstN(s, n) == SubSeq(s, 1, Min(n, Len(s)))

\* df[df[col] == word]: the rows whose cell under col is the string word
WhereEquals(rows, col, word) ==
    SelectSeq(rows, LAMBDA r : r[col] = PyStr(word))

\* the whole table, whatever the status
AllRows(df) == df.rows

\* df[df["status"] == "FAIL"]
FailRows(df) == WhereEquals(df.rows, "status", FAIL)

\* the number of rows, whatever the status
CountRows(df, word) == Len(df.rows)

\* df[df["status"] == word].shape[0]
CountStatus(df, word) == Len(WhereEquals(df.rows, "status", word))

\* .groupby("error"): the group keys.  A row whose error is NaN or None
\* belongs to no group (dropna=True).
GroupKeys(rows) == {rows[n]["error"] : n \in 1..Len(rows)} \ {NaN, PyNone}

\* .size(): the number of rows of a group
GroupSize(rows, key) ==
    Cardinality({n \in 1..Len(rows) : rows[n]["error"] = key})

\* .sort_values(ascending=False).reset_index(name="count"): the groups by
\* falling size.  The sort is pandas' default quicksort, which promises no
\* order among groups of equal size: every such order is an outcome.
SortValuesDescending(rows) ==
    LET keys == GroupKeys(rows)
        n == Cardinality(keys)
        orders == {f \in [1..n -> keys] :
                     /\ \A i, j \in 1..n : i # j => f[i] # f[j]
                     /\ \A i, j \in 1..n :
                          i < j => GroupSize(rows, f[i]) >= GroupSize(rows, f[j])}
    IN  {[columns |-> <<"error", "count">>,
          rows |-> [i \in 1..n |->
                      [error |-> f[i], count |-> GroupSize(rows, f[i])]]] :
           f \in orders}

\* summarize_log, lines 58-64, and extract_top_errors_with_examples, lines
\* 36-40: the failure rankings the sort can produce
ErrorSummaries(df) == SortValuesDescending(FailRows(df))

\* the test cases of the rows with that error, whatever their status
ExamplesAnyStatus(df, err) ==
    LET sel == SelectSeq(df.rows, LAMBDA r : r["error"] = err)
    IN  FirstN([n \in 1..Len(sel) |-> sel[n]["test_case"]], MaxExamples)

\* root_cause.py, line 48:
\* df[(df["error"] == err) & (df["status"] == "FAIL")]["test_case"].head(3)
Examples(df, err) ==
    LET sel == SelectSeq(df.rows,
                 LAMBDA r : r["error"] = err /\ r["status"] = PyStr(FAIL))
    IN  FirstN([n \in 1..Len(sel) |-> sel[n]["test_case"]], MaxExamples)

\* root_cause.py, lines 41-51: the dict, as the sequence of its items in
\* the order of insertion
ErrorExamples(df, error_summary, top_n) ==
    LET top_errors == FirstN(error_summary.rows, top_n)
    IN  [i \in 1..Len(top_errors) |->
           [error |-> top_errors[i].error,
            examples |-> Examples(df, top_errors[i].error)]]

\* ------------------------------------------------------------------------
\* The inputs: tables of records
\* ------------------------------------------------------------------------
DigitChars == <<"1", "2", "3", "4", "5", "6", "7", "8", "9">>

\* tc1, tc2, ...: the test cases of the test tables
CaseName(n) == <<"t", "c", DigitChars[n]>>

LogColumns == <<"test_case", "status", "error">>

\* status and error of a row: failures with two errors, a failure without
\* the text of an error, a passed row that carries the text of an error, a
\* row that neither passed nor failed
RowKinds ==
    {<<FAIL, ErrTimeout>>, <<FAIL, ErrNull>>, <<FAIL, <<>> >>,
     <<PASS, ErrTimeout>>, <<SKIP, <<>> >>}

LogTable(kinds) ==
    [columns |-> LogColumns,
     rows |-> [n \in 1..Len(kinds) |->
                 [test_case |-> PyStr(CaseName(n)),
                  status |-> PyStr(kinds[n][1]),
                  error |-> PyStr(kinds[n][2])]]]

LogTables == {LogTable(kinds) : kinds \in SeqsUpTo(RowKinds, MaxRecords)}

\* ------------------------------------------------------------------------
\* The LLM client and the strings of summary.py and root_cause.py
\* ------------------------------------------------------------------------
ErrorGeneratingSummary ==
    <<"E", "r", "r", "o", "r", " ", "g", "e", "n", "e", "r", "a", "t", "i",
      "n", "g", " ", "s", "u", "m", "m", "a", "r", "y", ":", " ">>

ErrorGeneratingRootCause ==
    <<"E", "r", "r", "o", "r", " ", "g", "e", "n", "e", "r", "a", "t", "i",
      "n", "g", " ", "r", "o", "o", "t", " ", "c", "a", "u", "s", "e", " ",
      "s", "u", "g", "g", "e", "s", "t", "i", "o", "n", "s", ":", " ">>

LlmDisabledMessage ==
    <<"[", "L", "L", "M", " ", "d", "i", "s", "a", "b", "l", "e", "d", ":",
      " ", "n", "o", " ", "s", "u", "m", "m", "a", "r", "y", " ", "g", "e",
      "n", "e", "r", "a", "t", "e", "d", " ", "i", "n", " ", "t", "e", "s",
      "t", " ", "m", "o", "d", "e", ".", "]">>

NoFailuresMessage ==
    <<"N", "o", " ", "f", "a", "i", "l", "u", "r", "e", "s", " ", "t", "o",
      " ", "s", "u", "m", "m", "a", "r", "i", "z", "e", ".">>

MissingSummaryColumns ==
    <<"E", "r", "r", "o", "r", ":", " ", "T", "h", "e", " ", "e", "r", "r",
      "o", "r", "_", "s", "u", "m", "m", "a", "r", "y", " ", "D", "a", "t",
      "a", "F", "r", "a", "m", "e", " ", "m", "u", "s", "t", " ", "c", "o",
      "n", "t", "a", "i", "n", " ", "t", "h", "e", " ", "f", "o", "l", "l",
      "o", "w", "i", "n", "g", " ", "c", "o", "l", "u", "m", "n", "s", ":",
      " ">>

MockSummary ==
    <<"M", "o", "c", "k", " ", "s", "u", "m", "m", "a", "r", "y", " ", "r",
      "e", "s", "p", "o", "n", "s", "e">>

ApiFail == <<"A", "P", "I", " ", "f", "a", "i", "l">>

CombineError ==
    <<"C", "o", "m", "b", "i", "n", "e", " ", "e", "r", "r", "o", "r">>

ParagraphBreak == <<"\n", "\n">>

\* one call of client.chat.completions.create ends with a reply or with an
\* exception
Reply(content) == [ok |-> TRUE, text |-> content]

Failure(msg) == [ok |-> FALSE, text |-> msg]

FailureMessages == {ApiFail, CombineError}

LlmOutcomes == {Reply(MockSummary)} \cup {Failure(m) : m \in FailureMessages}

\* the requests, by the parts of the prompt that vary: the rows of the
\* chunk and its " (Chunk i/N)" note, the summaries to combine, the errors
\* and their examples
ChunkRequest(rows, chunk_info) ==
    [kind |-> "chunk", rows |-> rows, chunk_info |-> chunk_info, text |-> <<>>]

CombineRequest(combined_summary) ==
    [kind |-> "combine", rows |-> <<>>, chunk_info |-> <<>>,
     text |-> combined_summary]

\* prompt_root_cause_analysis, lines 63-83
RootCauseRequest(error_examples) ==
    [kind |-> "root_cause", rows |-> error_examples, chunk_info |-> <<>>,
     text |-> <<>>]

ClientCall(request, outcome) == [request |-> request, outcome |-> outcome]

\* how a function of summary.py ended, and the client calls it made
Ended(result, summaries, made) ==
    [result |-> result, summaries |-> summaries, calls |-> made]

\* a client call outside any try: the exception reaches the caller
ChatOrRaise(outcome) ==
    IF outcome.ok THEN Returned(outcome.text) ELSE Raised(outcome.text)

\* summary.py, lines 123-135 and 175-187: try: ... return
\* response.choices[0].message.content; except Exception as e: return
\* f"Error generating summary: {str(e)}"
ChatOrSummaryError(outcome) ==
    IF outcome.ok THEN Returned(outcome.text)
    ELSE Returned(ErrorGeneratingSummary \o outcome.text)

\* root_cause.py, lines 96-108
ChatOrRootCauseError(outcome) ==
    IF outcome.ok THEN Returned(outcome.text)
    ELSE Returned(ErrorGeneratingRootCause \o outcome.text)

\* summarize_chunk, lines 92-135
SummarizeChunk(disabled, chunk, chunk_info, outcome) ==
    IF disabled
    THEN Ended(Returned(LlmDisabledMessage), <<>>, <<>>)
    ELSE Ended(ChatOrSummaryError(outcome), <<>>,
               <<ClientCall(ChunkRequest(chunk, chunk_info), outcome)>>)

\* a count of the full chunks only
FullChunks(n, chunk_size) == n \div chunk_size

\* (n + chunk_size - 1) // chunk_size
TotalChunks(n, chunk_size) == (n + chunk_size - 1) \div chunk_size

\* error_summary.iloc[start:start+chunk_size] of the i-th start of
\* range(0, n, chunk_size), i counted from 1
ChunkOf(rows, i, chunk_size) ==
    SubSeq(rows, (i - 1) * chunk_size + 1, Min(i * chunk_size, Len(rows)))

\* "\n\n".join(summaries)
RECURSIVE Join(_, _)
Join(sep, strs) ==
    IF strs = <<>> THEN <<>>
    ELSE IF Len(strs) = 1 THEN strs[1]
         ELSE strs[1] \o sep \o Join(sep, Tail(strs))

\* generate_llm_summary, lines 163-167: the loop over the chunks from the
\* i-th on; an exception out of summarize_chunk ends the loop
RECURSIVE SummarizeChunks(_, _, _, _, _, _)
SummarizeChunks(disabled, rows, chunk_size, outcomes, i, acc) ==
    LET total_chunks == TotalChunks(Len(rows), chunk_size)
    IN  IF i > total_chunks THEN acc
        ELSE LET r == SummarizeChunk(disabled, ChunkOf(rows, i, chunk_size),
                                     <<i, total_chunks>>, outcomes[i])
             IN  IF r.result.raised
                 THEN Ended(r.result, acc.summaries, acc.calls \o r.calls)
                 ELSE SummarizeChunks(disabled, rows, chunk_size, outcomes, i + 1,
                        Ended(acc.result, Append(acc.summaries, r.result.v),
                              acc.calls \o r.calls))

\* generate_llm_summary, lines 151-189; outcomes[k] is how the k-th client
\* call ends, if it is made
GenerateLlmSummaryOf(disabled, error_summary, chunk_size, outcomes) ==
    LET n == Len(error_summary.rows)
        total_chunks == TotalChunks(n, chunk_size)
        chunks == SummarizeChunks(disabled, error_summary.rows, chunk_size,
                                  outcomes, 1, Ended(Returned(<<>>), <<>>, <<>>))
        combined_summary == Join(ParagraphBreak, chunks.summaries)
        final == outcomes[total_chunks + 1]
    IN  IF disabled THEN Ended(Returned(LlmDisabledMessage), <<>>, <<>>)
        ELSE IF ~({"error", "count"} \subseteq SeqSet(error_summary.columns))
        THEN Ended(Returned(MissingSummaryColumns), <<>>, <<>>)
        ELSE IF n = 0 THEN Ended(Returned(NoFailuresMessage), <<>>, <<>>)
        ELSE IF n <= chunk_size
        THEN SummarizeChunk(disabled, error_summary.rows, <<>>, outcomes[1])
        ELSE IF chunks.result.raised THEN chunks
        ELSE IF total_chunks > 1
        THEN Ended(ChatOrSummaryError(final), chunks.summaries,
                   Append(chunks.calls,
                          ClientCall(CombineRequest(combined_summary), final)))
        ELSE Ended(Returned(combined_summary), chunks.summaries, chunks.calls)

\* the client calls generate_llm_summary goes on to make when none raises
ClientCallsAhead(disabled, n, chunk_size) ==
    IF disabled \/ n = 0 THEN 0
    ELSE IF n <= chunk_size THEN 1
    ELSE TotalChunks(n, chunk_size) + 1

\* ------------------------------------------------------------------------
\* One call of a function of summary.py or root_cause.py on a table
\* ------------------------------------------------------------------------
IdleInput == FileInput("path", PathLog, NoTable, <<>>)

InitSummary ==
    /\ file_input = IdleInput
    /\ pc = "idle"
    /\ lines = <<>>
    /\ next_line = 1
    /\ test_type_map = EmptyDict
    /\ results = <<>>
    /\ origin = <<>>
    /\ ret = NoFrame
    /\ exc = NoException
    /\ reads = 0
    /\ calls = <<>>
    /\ log_df \in LogTables
    /\ no_llm \in BOOLEAN
    /\ op = "none"
    /\ args = NoArgs
    /\ out = NoOutcome
    /\ client_calls = <<>>

\* summarize_log(df), lines 53-75, with the ranking the sort produced and
\* the outcomes of the client calls: how it ended and the calls it made
SummarizeLogOf(df, disabled, error_summary, outcomes) ==
    LET total == Len(df.rows)
        passed == CountStatus(df, PASS)
        failed == CountStatus(df, FAIL)
        llm == GenerateLlmSummaryOf(disabled, error_summary, DefaultChunkSize,
                                    outcomes)
    IN  Ended(IF llm.result.raised THEN llm.result
              ELSE Returned([total |-> total, passed |-> passed,
                             failed |-> failed,
                             top_errors |-> error_summary,
                             llm_summary |-> llm.result.v]),
              llm.summaries, llm.calls)

\* summarize_log(df), lines 53-75
SummarizeLog ==
    /\ op = "none"
    /\ \E error_summary \in ErrorSummaries(log_df) :
         \E outcomes \in [1..ClientCallsAhead(no_llm, Len(error_summary.rows),
                                             DefaultChunkSize) -> LlmOutcomes] :
           LET ended == SummarizeLogOf(log_df, no_llm, error_summary, outcomes)
           IN  /\ out' = [result |-> ended.result, summaries |-> ended.summaries]
               /\ client_calls' = ended.calls
    /\ op' = "summarize_log"
    /\ args' = NoArgs
    /\ UNCHANGED <<log_df, no_llm>>
    /\ UNCHANGED parse_vars

\* generate_llm_summary(total, passed, failed, error_summary, chunk_size),
\* lines 151-189, on the ranking of the table
GenerateLlmSummary ==
    /\ op = "none"
    /\ \E error_summary \in ErrorSummaries(log_df) :
       \E chunk_size \in 1..MaxChunkSize :
         \E outcomes \in [1..ClientCallsAhead(no_llm, Len(error_summary.rows),
                                             chunk_size) -> LlmOutcomes] :
           LET llm == GenerateLlmSummaryOf(no_llm, error_summary, chunk_size,
                                           outcomes)
           IN  /\ out' = [result |-> llm.result, summaries |-> llm.summaries]
               /\ client_calls' = llm.calls
               /\ args' = [top_n |-> 0, chunk_size |-> chunk_size,
                           error_summary |-> error_summary]
    /\ op' = "generate_llm_summary"
    /\ UNCHANGED <<log_df, no_llm>>
    /\ UNCHANGED parse_vars

\* extract_top_errors_with_examples(df, top_n), lines 36-51
ExtractTopErrorsWithExamples ==
    /\ op = "none"
    /\ \E top_n \in 0..MaxTopN :
       \E error_summary \in ErrorSummaries(log_df) :
         /\ out' = [result |-> Returned(ErrorExamples(log_df, error_summary, top_n)),
                    summaries |-> <<>>]
         /\ args' = [NoArgs EXCEPT !.top_n = top_n]
    /\ op' = "extract_top_errors_with_examples"
    /\ UNCHANGED <<log_df, no_llm, client_calls>>
    /\ UNCHANGED parse_vars

\* get_root_cause_suggestions(prompt), lines 96-108, on the prompt that
\* prompt_root_cause_analysis builds from the top errors of the table
GetRootCauseSuggestions ==
    /\ op = "none"
    /\ \E error_summary \in ErrorSummaries(log_df) :
       \E outcome \in LlmOutcomes :
         LET error_examples == ErrorExamples(log_df, error_summary, DefaultTopN)
         IN  /\ out' = [result |-> ChatOrRootCauseError(outcome),
                        summaries |-> <<>>]
             /\ client_calls' =
                  <<ClientCall(RootCauseRequest(error_examples), outcome)>>
    /\ op' = "get_root_cause_suggestions"
    /\ args' = NoArgs
    /\ UNCHANGED <<log_df, no_llm>>
    /\ UNCHANGED parse_vars

NextSummary ==
    \/ SummarizeLog
    \/ GenerateLlmSummary
    \/ ExtractTopErrorsWithExamples
    \/ GetRootCauseSuggestions

SpecSummary == InitSummary /\ [][NextSummary]_vars

\* ------------------------------------------------------------------------
\* parse_file, and then summarize_log on the table it returned
\* ------------------------------------------------------------------------
\* summarize_log(parse_file(path)): summarize_log, lines 53-75, on the table
\* of the parser
SummarizeParsed ==
    /\ pc = "returned"
    /\ op = "none"
    /\ \E error_summary \in ErrorSummaries(ret) :
         \E outcomes \in [1..ClientCallsAhead(no_llm, Len(error_summary.rows),
                                             DefaultChunkSize) -> LlmOutcomes] :
           LET ended == SummarizeLogOf(ret, no_llm, error_summary, outcomes)
           IN  /\ out' = [result |-> ended.result, summaries |-> ended.summaries]
               /\ client_calls' = ended.calls
    /\ log_df' = ret
    /\ op' = "summarize_log"
    /\ args' = NoArgs
    /\ UNCHANGED no_llm
    /\ UNCHANGED parse_vars

NextPipeline ==
    \/ ParseFileCsv
    \/ ParseFileUnsupported
    \/ ParseTxtOpen
    \/ ParseTxtLine
    \/ ParseTxtReturn
    \/ SummarizeParsed

SpecPipeline == Init /\ [][NextPipeline]_vars

\* ========================================================================
\* Properties
\* ========================================================================

\* ------------------------------------------------------------------------
\* Vocabulary of the properties: the line grammars as the specification
\* words them, written with the constructors of the input lines
\* ------------------------------------------------------------------------
Input == file_input.text

Done == pc \in {"returned", "raised"}

\* parse_file returned the table of a text input
ParsedText == pc = "returned" /\ file_input.table = NoTable

\* a text input that parse_file routes to the free-text path
FreeTextInput ==
    /\ file_input.table = NoTable
    /\ IsPath => file_input.name \in {PathTxt, PathLog}

Modules == {ModCore, ModComm}

Errors == {ErrTimeout, ErrNull}

AllCases == {CaseT1, CaseT2, CaseAdc, CaseCan}

StatusWords == {PASS, FAIL}

Padded(S) == S \cup {Blanks \o l \o Blanks : l \in S}

InfoLinesOf(tc, ty) == Padded({InfoLine(tc, ty)})

BracketedResultsOf(tc, st) ==
    LET plain == {BracketedLine(tc, m, st) : m \in Modules}
        typed == plain \cup {WithType(l, ty) : l \in plain, ty \in Types}
    IN  Padded(typed \cup {WithError(l, e) : l \in typed, e \in Errors})

SimpleResultsOf(tc, st) ==
    LET plain == {SimpleLine(tc, st)}
    IN  Padded(plain \cup {WithError(l, e) : l \in plain, e \in Errors})

DecoratedResultsOf(tc, st) ==
    Padded({DecoratedLine(tc, st, m) : m \in Modules})

\* the lines that match one of the three result grammars
ResultGrammarLines ==
    UNION {BracketedResultsOf(tc, st) \cup SimpleResultsOf(tc, st)
             \cup DecoratedResultsOf(tc, st) : tc \in AllCases, st \in StatusWords}

BracketedResultLinesOf(tc) ==
    UNION {BracketedResultsOf(tc, st) : st \in StatusWords}

\* the informational lines for test case tc before line n of the input
InfoBefore(n, tc) ==
    {i \in 1..(n - 1) : \E ty \in Types : Input[i] \in InfoLinesOf(tc, ty)}

DeclaredType(i, tc) == CHOOSE ty \in Types : Input[i] \in InfoLinesOf(tc, ty)

Field(row, col) == row[col]

\* the rows of the returned table that line n of the input produced
RowsOfLine(n) == {k \in 1..Len(origin) : origin[k] = n}

\* ------------------------------------------------------------------------
\* C1 (as stated): in the free-text path the record of a Result line for
\* test case T carries the type of every Informational line for T that
\* occurs earlier in the input, and the empty string when there is none.
\* ------------------------------------------------------------------------
C1_TypeOfAnyEarlierInfo ==
    ParsedText =>
      \A k \in 1..Len(ret.rows) : \A tc \in AllCases :
        Input[origin[k]] \in BracketedResultLinesOf(tc) =>
          /\ \A i \in InfoBefore(origin[k], tc) :
               Field(ret.rows[k], "test_type") = PyStr(DeclaredType(i, tc))
          /\ InfoBefore(origin[k], tc) = {} =>
               Field(ret.rows[k], "test_type") = PyStr(<<>>)

\* C1 (amended): in the free-text path the record of a Result line for test
\* case T carries the type declared by the latest Informational line for T
\* that occurs earlier in the input, and the empty string when no
\* Informational line for T occurs before it.
C1_TypeOfLatestEarlierInfo ==
    ParsedText =>
      \A k \in 1..Len(ret.rows) : \A tc \in AllCases :
        Input[origin[k]] \in BracketedResultLinesOf(tc) =>
          /\ InfoBefore(origin[k], tc) # {} =>
               Field(ret.rows[k], "test_type") =
                 PyStr(DeclaredType(SetMax(InfoBefore(origin[k], tc)), tc))
          /\ InfoBefore(origin[k], tc) = {} =>
               Field(ret.rows[k], "test_type") = PyStr(<<>>)

\* two Informational lines for t1 with different types, then its Result
\* line: the record carries the second type
C1_Witness ==
    /\ ParsedText
    /\ Input = << InfoLine(CaseT1, TypeSystem), InfoLine(CaseT1, TypeUnit),
                  BracketedLine(CaseT1, ModCore, PASS) >>
    /\ Len(ret.rows) = 1
    /\ Field(ret.rows[1], "test_type") = PyStr(TypeUnit)

\* ------------------------------------------------------------------------
\* C2: the free-text path never aborts on a line, and the table has exactly
\* as many rows as the input has lines matching a result grammar; every
\* other line, Informational lines included, contributes no row.
\* ------------------------------------------------------------------------
C2_RowsAreMatchingLines ==
    FreeTextInput =>
      /\ pc # "raised"
      /\ pc = "returned" =>
           /\ Len(ret.rows) =
                Cardinality({n \in 1..Len(Input) : Input[n] \in ResultGrammarLines})
           /\ \A n \in 1..Len(Input) :
                Input[n] \notin ResultGrammarLines => RowsOfLine(n) = {}

\* ------------------------------------------------------------------------
\* C3: a line of the simple grammar, <test_case>: <status> with or without
\* " - <err>", yields exactly one record with that test case and status and
\* with error err, or the empty string when the suffix is omitted.
\* ------------------------------------------------------------------------
C3_SimpleLineRecord ==
    ParsedText =>
      \A n \in 1..Len(Input) : \A tc \in AllCases : \A st \in StatusWords :
        /\ Input[n] = SimpleLine(tc, st) =>
             \E k \in 1..Len(ret.rows) :
               /\ RowsOfLine(n) = {k}
               /\ Field(ret.rows[k], "test_case") = PyStr(tc)
               /\ Field(ret.rows[k], "status") = PyStr(st)
               /\ Field(ret.rows[k], "error") = PyStr(<<>>)
        /\ \A e \in Errors :
             Input[n] = WithError(SimpleLine(tc, st), e) =>
               \E k \in 1..Len(ret.rows) :
                 /\ RowsOfLine(n) = {k}
                 /\ Field(ret.rows[k], "test_case") = PyStr(tc)
                 /\ Field(ret.rows[k], "status") = PyStr(st)
                 /\ Field(ret.rows[k], "error") = PyStr(e)

\* ------------------------------------------------------------------------
\* C4: a .csv input whose header lacks required columns makes parse_file
\* fail, returning no table, with a message that lists exactly the missing
\* required columns.
\* ------------------------------------------------------------------------
RequiredColumns == SeqSet(EXPECTED_COLUMNS)

LackingColumns == RequiredColumns \ SeqSet(file_input.table.header)

CsvInput == IsPath /\ EndsWith(file_input.name, DotCsv)

C4_MissingColumnsListed ==
    (CsvInput /\ LackingColumns # {} /\ Done) =>
      /\ pc = "raised"
      /\ ret = NoFrame
      /\ exc.type = "ValueError"
      /\ exc.msg = MissingMessage
      /\ SeqSet(exc.arg) = LackingColumns
      /\ Len(exc.arg) = Cardinality(LackingColumns)

C4_Witness ==
    /\ pc = "raised"
    /\ file_input.table.header = HeaderTwo
    /\ Len(file_input.table.rows) = 2
    /\ exc.arg = <<"timestamp", "test_case", "module", "error", "test_type">>

\* ------------------------------------------------------------------------
\* C5: a path whose extension is none of .csv, .txt, .log makes parse_file
\* fail at once with the unsupported-type error, whose message names the
\* extension; nothing is returned and the file is not read.
\* ------------------------------------------------------------------------
UpperLetters ==
    <<"A", "B", "C", "D", "E", "F", "G", "H", "I", "J", "K", "L", "M",
      "N", "O", "P", "Q", "R", "S", "T", "U", "V", "W", "X", "Y", "Z">>

LowerLetters ==
    <<"a", "b", "c", "d", "e", "f", "g", "h", "i", "j", "k", "l", "m",
      "n", "o", "p", "q", "r", "s", "t", "u", "v", "w", "x", "y", "z">>

LowerChar(ch) ==
    IF ch \in UpperCase
    THEN LowerLetters[CHOOSE n \in 1..Len(UpperLetters) : UpperLetters[n] = ch]
    ELSE ch

Lower(s) == [n \in 1..Len(s) |-> LowerChar(s[n])]

\* the extension of a file name: from its last dot, a leading dot aside
Extension(name) ==
    LET dots == {n \in 2..Len(name) : name[n] = "."}
    IN  IF dots = {} THEN <<>> ELSE SubSeq(name, SetMax(dots), Len(name))

SupportedExtensions == {DotCsv, DotTxt, DotLog}

\* s occurs in t
Contains(t, s) == \E n \in 1..(Len(t) - Len(s) + 1) : HasLit(t, n, s)

C5_UnsupportedExtensionRejected ==
    (IsPath /\ Lower(Extension(file_input.name)) \notin SupportedExtensions) =>
      /\ reads = 0
      /\ ret = NoFrame
      /\ pc \in {"call", "raised"}
      /\ pc = "raised" =>
           /\ exc.type = "ValueError"
           /\ exc.msg = UnsupportedMessage
           /\ Contains(exc.arg, Extension(file_input.name))

C5_Witness ==
    /\ pc = "raised"
    /\ file_input.name = PathXyz
    /\ Input # <<>>
    /\ exc = ValueError(UnsupportedMessage, PathXyz)
    /\ reads = 0

\* ------------------------------------------------------------------------
\* C6: for a valid .csv input (the six required columns present, in any
\* order, with or without extra columns) parse_file returns a table whose
\* columns are exactly timestamp, test_case, module, status, error,
\* test_type in that order; extra columns are dropped, the number of rows
\* is unchanged, and every row holds under each of these columns what the
\* input row held under it (a cell read_csv takes for missing stays
\* missing, every other cell keeps its text).
\* ------------------------------------------------------------------------
InputCell(n, col) ==
    file_input.table.rows[n][ColumnIndex(file_input.table.header, col)]

C7_EveryFieldIsAString ==
    pc = "returned" =>
      /\ ret.columns = EXPECTED_COLUMNS
      /\ \A n \in 1..Len(ret.rows) :
           /\ DOMAIN ret.rows[n] = RequiredColumns
           /\ \A col \in RequiredColumns : IsStr(Field(ret.rows[n], col))

\* ------------------------------------------------------------------------
\* C8: every record of a returned table has status exactly PASS or FAIL; a
\* line or row whose status word is anything else yields no record.
\* ------------------------------------------------------------------------
OtherStatusWords == {PASSED, FAILED, LowerPass, SKIP}

OtherStatusLines ==
    LET plain == {BracketedLine(tc, m, st) :
                    tc \in AllCases, m \in Modules, st \in OtherStatusWords}
    IN  plain \cup {WithError(l, e) : l \in plain, e \in Errors}

C8_StatusIsPassOrFail ==
    pc = "returned" =>
      /\ \A n \in 1..Len(ret.rows) :
           Field(ret.rows[n], "status") \in {PyStr(PASS), PyStr(FAIL)}
      /\ \A n \in 1..Len(Input) :
           Input[n] \in OtherStatusLines => RowsOfLine(n) = {}

\* ------------------------------------------------------------------------
\* C9 (as stated): the two lines "[INFO] Running test: t1 [type=System]"
\* and "[RESULT] t1 [CORE] PASS", neither with a timestamp, yield exactly
\* one record: test_case t1, module CORE, status PASS, test_type System,
\* error empty.
\* ------------------------------------------------------------------------
C9_BareScenarioYieldsRecord ==
    (ParsedText /\ Input = << BareInfoLine(CaseT1, TypeSystem),
                              BareResultLine(CaseT1, ModCore, PASS) >>) =>
      /\ Len(ret.rows) = 1
      /\ Field(ret.rows[1], "test_case") = PyStr(CaseT1)
      /\ Field(ret.rows[1], "module") = PyStr(ModCore)
      /\ Field(ret.rows[1], "status") = PyStr(PASS)
      /\ Field(ret.rows[1], "test_type") = PyStr(TypeSystem)
      /\ Field(ret.rows[1], "error") = PyStr(<<>>)

\* C9 (amended): the two lines "[<timestamp>] [INFO] Running test: t1
\* [type=System]" and "[<timestamp>] [RESULT] t1 [CORE] PASS", each with its
\* timestamp, yield exactly one record: that timestamp, test_case t1, module
\* CORE, status PASS, test_type System, error empty; the same two lines
\* without their timestamps match no pattern and yield no record.
C9_StampedScenarioYieldsRecord ==
    /\ (ParsedText /\ Input = << InfoLine(CaseT1, TypeSystem),
                                 BracketedLine(CaseT1, ModCore, PASS) >>) =>
         ret.rows = << [timestamp |-> PyStr(Stamp), test_case |-> PyStr(CaseT1),
                        module |-> PyStr(ModCore), status |-> PyStr(PASS),
                        error |-> PyStr(<<>>), test_type |-> PyStr(TypeSystem)] >>
    /\ (ParsedText /\ Input = << BareInfoLine(CaseT1, TypeSystem),
                                 BareResultLine(CaseT1, ModCore, PASS) >>) =>
         ret.rows = <<>>

C9_Witness ==
    /\ ParsedText
    /\ Input = << InfoLine(CaseT1, TypeSystem),
                  BracketedLine(CaseT1, ModCore, PASS) >>
    /\ Len(ret.rows) = 1
    /\ test_type_map = [tc \in {CaseT1} |-> TypeSystem]

\* ------------------------------------------------------------------------
\* C10: parse_file tells the kind of input from the extension in any letter
\* case: a path whose extension is .csv, .txt or .log in upper or mixed case
\* is accepted, not rejected as unsupported.
\* ------------------------------------------------------------------------
C10_ExtensionCaseInsensitive ==
    (Done /\ IsPath /\ Lower(Extension(file_input.name)) \in SupportedExtensions) =>
      ~(pc = "raised" /\ exc.msg = UnsupportedMessage)

\* ------------------------------------------------------------------------
\* C11: the correlation state is scoped to one call.  The table parse_file
\* returns for an input equals the table every earlier call of the process
\* returned for that input, whatever was parsed in between; the first call
\* of a process is a parse of its input alone.
\* ------------------------------------------------------------------------
C11_InvocationsAreIndependent ==
    pc = "returned" =>
      \A i \in 1..Len(calls) :
        calls[i].file_input = file_input => calls[i].ret = ret

\* B, a Result line for t1, parsed alone; then A, an Informational line for
\* t1; then B again: the record of B has no type, as in the first call
C11_Witness ==
    /\ pc = "returned"
    /\ Len(calls) = 2
    /\ Input = <<BracketedLine(CaseT1, ModCore, PASS)>>
    /\ calls[1].file_input = file_input
    /\ calls[2].file_input.text = <<InfoLine(CaseT1, TypeSystem)>>
    /\ Len(ret.rows) = 1
    /\ Field(ret.rows[1], "test_type") = PyStr(<<>>)
    /\ calls[1].ret = ret

\* ------------------------------------------------------------------------
\* Vocabulary of the properties of summary.py and root_cause.py
\* ------------------------------------------------------------------------
Table == log_df.rows

\* the function ran and returned a value
ReturnedFrom(function) == op = function /\ ~out.result.raised

RowsOfStatus(word) == {n \in 1..Len(Table) : Table[n]["status"] = PyStr(word)}

\* the FAIL rows that carry error e
FailuresOf(e) == {n \in RowsOfStatus(FAIL) : Table[n]["error"] = e}

\* the error strings that occur among the FAIL rows
FailedErrors ==
    {Table[n]["error"] : n \in {k \in RowsOfStatus(FAIL) : IsStr(Table[k]["error"])}}

\* the errors of the FAIL rows, in table order
RECURSIVE FailedErrorsFrom(_)
FailedErrorsFrom(n) ==
    IF n > Len(Table) THEN <<>>
    ELSE (IF n \in RowsOfStatus(FAIL) THEN <<Table[n]["error"]>> ELSE <<>>)
           \o FailedErrorsFrom(n + 1)

Ranking == out.result.v.top_errors.rows

StartsWith(s, prefix) == HasLit(s, 1, prefix)

\* ------------------------------------------------------------------------
\* C12: summarize_log returns total = the number of rows, passed = the
\* number of rows with status PASS and failed = the number of rows with
\* status FAIL; so passed + failed <= total, with equality exactly when the
\* status of every row is PASS or FAIL.
\* ------------------------------------------------------------------------
C12_TotalsCountRows ==
    op = "summarize_log" =>
      /\ ~out.result.raised
      /\ out.result.v.total = Len(Table)
      /\ out.result.v.passed = Cardinality(RowsOfStatus(PASS))
      /\ out.result.v.failed = Cardinality(RowsOfStatus(FAIL))
      /\ out.result.v.passed + out.result.v.failed <= out.result.v.total
      /\ (out.result.v.passed + out.result.v.failed = out.result.v.total)
           <=> \A n \in 1..Len(Table) :
                 Table[n]["status"] \in {PyStr(PASS), PyStr(FAIL)}

\* a failed, a passed and a skipped row: 3 in total, 1 passed, 1 failed
C12_Witness ==
    /\ ReturnedFrom("summarize_log")
    /\ log_df = LogTable(<< <<FAIL, ErrTimeout>>, <<PASS, ErrTimeout>>,
                           <<SKIP, <<>> >> >>)
    /\ out.result.v.total = 3
    /\ out.result.v.passed = 1
    /\ out.result.v.failed = 1

\* ------------------------------------------------------------------------
\* C13: the failure ranking of summarize_log has exactly one entry for
\* every error string that occurs among the FAIL rows and no other entry
\* (PASS rows never contribute); the count of an entry is the number of
\* FAIL rows with that error; the counts never rise along the ranking; FAIL
\* rows with errors T, N, T are ranked (T, 2), (N, 1).
\* ------------------------------------------------------------------------
C13_RankingCountsFailures ==
    ReturnedFrom("summarize_log") =>
      /\ {Ranking[i].error : i \in 1..Len(Ranking)} = FailedErrors
      /\ Len(Ranking) = Cardinality(FailedErrors)
      /\ \A i \in 1..Len(Ranking) :
           Ranking[i].count = Cardinality(FailuresOf(Ranking[i].error))
      /\ \A i, j \in 1..Len(Ranking) :
           i < j => Ranking[i].count >= Ranking[j].count
      /\ FailedErrorsFrom(1) = <<PyStr(ErrTimeout), PyStr(ErrNull), PyStr(ErrTimeout)>>
           => Ranking = << [error |-> PyStr(ErrTimeout), count |-> 2],
                           [error |-> PyStr(ErrNull), count |-> 1] >>

\* FAIL rows with errors Timeout, Null, Timeout and a PASS row that carries
\* the text of Null: Timeout is ranked with 2, then Null with 1
C13_Witness ==
    /\ ReturnedFrom("summarize_log")
    /\ log_df = LogTable(<< <<FAIL, ErrTimeout>>, <<FAIL, ErrNull>>,
                           <<PASS, ErrTimeout>>, <<FAIL, ErrTimeout>> >>)
    /\ Ranking = << [error |-> PyStr(ErrTimeout), count |-> 2],
                    [error |-> PyStr(ErrNull), count |-> 1] >>

\* ------------------------------------------------------------------------
\* C14: in the failure ranking, two errors with equal counts stand in the
\* order in which they first appear among the FAIL rows of the table.
\* ------------------------------------------------------------------------
FirstFailure(e) == SetMin(FailuresOf(e))

C14_TiesInFirstAppearanceOrder ==
    ReturnedFrom("summarize_log") =>
      \A i, j \in 1..Len(Ranking) :
        (i < j /\ Ranking[i].count = Ranking[j].count) =>
          FirstFailure(Ranking[i].error) < FirstFailure(Ranking[j].error)

\* ------------------------------------------------------------------------
\* C15: for a table and top_n >= 0, extract_top_errors_with_examples
\* returns a mapping with at most top_n keys; every key is the error of a
\* FAIL row, and no error left out has more FAIL rows than a key; a key
\* maps to at most 3 test cases, those of the first rows in table order
\* that carry the error and have status FAIL (never a PASS row with the
\* same error text); an empty table yields an empty mapping.
\* ------------------------------------------------------------------------
Mapping == out.result.v

Keys == {Mapping[i].error : i \in 1..Len(Mapping)}

\* the k-th FAIL row, in table order, that carries error e
NthFailureOf(e, k) ==
    CHOOSE n \in FailuresOf(e) :
      Cardinality({m \in FailuresOf(e) : m <= n}) = k

C15_TopErrorsWithFailedExamples ==
    op = "extract_top_errors_with_examples" =>
      /\ ~out.result.raised
      /\ Len(Mapping) <= args.top_n
      /\ Cardinality(Keys) = Len(Mapping)
      /\ Keys \subseteq FailedErrors
      /\ \A e \in FailedErrors \ Keys : \A k \in Keys :
           Cardinality(FailuresOf(e)) <= Cardinality(FailuresOf(k))
      /\ \A i \in 1..Len(Mapping) :
           LET e == Mapping[i].error
               examples == Mapping[i].examples
           IN  /\ Len(examples) <= 3
               /\ Len(examples) = Min(3, Cardinality(FailuresOf(e)))
               /\ \A k \in 1..Len(examples) :
                    examples[k] = Table[NthFailureOf(e, k)]["test_case"]
      /\ Table = <<>> => Mapping = <<>>

\* four failures with Timeout: the examples are the first three of them,
\* tc1, tc2 and tc3
C15_Witness ==
    /\ ReturnedFrom("extract_top_errors_with_examples")
    /\ args.top_n = 1
    /\ log_df = LogTable(<< <<FAIL, ErrTimeout>>, <<FAIL, ErrTimeout>>,
                           <<FAIL, ErrTimeout>>, <<FAIL, ErrTimeout>> >>)
    /\ Mapping = << [error |-> PyStr(ErrTimeout),
                     examples |-> <<PyStr(CaseName(1)), PyStr(CaseName(2)),
                                    PyStr(CaseName(3))>>] >>

\* ------------------------------------------------------------------------
\* C16: a client call that fails is never raised to the caller.
\* summarize_chunk and the combine step of generate_llm_summary return
\* "Error generating summary: " followed by the message of the failure,
\* get_root_cause_suggestions returns "Error generating root cause
\* suggestions: " followed by it, and no request is sent a second time.
\* ------------------------------------------------------------------------
Failed(call) == ~call.outcome.ok

SummaryErrorOf(call) == ErrorGeneratingSummary \o call.outcome.text

\* generate_llm_summary took the path of several chunks
Chunked ==
    /\ op = "generate_llm_summary"
    /\ ~no_llm
    /\ Len(args.error_summary.rows) > args.chunk_size

\* generate_llm_summary handed the whole ranking to summarize_chunk
SingleChunk ==
    /\ op = "generate_llm_summary"
    /\ ~no_llm
    /\ Len(args.error_summary.rows) \in 1..args.chunk_size

C16_ClientFailureIsReturned ==
    op \in {"summarize_log", "generate_llm_summary", "get_root_cause_suggestions"}
    =>
      /\ ~out.result.raised
      /\ \A i, j \in 1..Len(client_calls) :
           i # j => client_calls[i].request # client_calls[j].request
      /\ SingleChunk =>
           /\ Len(client_calls) = 1
           /\ Failed(client_calls[1]) =>
                /\ out.result.v = SummaryErrorOf(client_calls[1])
                /\ StartsWith(out.result.v, ErrorGeneratingSummary)
      /\ Chunked =>
           LET total_chunks == Len(out.summaries)
           IN  /\ Len(client_calls) = total_chunks + 1
               /\ \A i \in 1..total_chunks :
                    /\ client_calls[i].request.kind = "chunk"
                    /\ Failed(client_calls[i]) =>
                         /\ out.summaries[i] = SummaryErrorOf(client_calls[i])
                         /\ StartsWith(out.summaries[i], ErrorGeneratingSummary)
               /\ client_calls[total_chunks + 1].request.kind = "combine"
               /\ Failed(client_calls[total_chunks + 1]) =>
                    /\ out.result.v = SummaryErrorOf(client_calls[total_chunks + 1])
                    /\ StartsWith(out.result.v, ErrorGeneratingSummary)
      /\ op = "get_root_cause_suggestions" =>
           /\ Len(client_calls) = 1
           /\ Failed(client_calls[1]) =>
                /\ out.result.v =
                     ErrorGeneratingRootCause \o client_calls[1].outcome.text
                /\ StartsWith(out.result.v, ErrorGeneratingRootCause)

\* two errors in chunks of one: the call for the first chunk fails, the
\* call for the second is answered, the combine call fails; three calls
\* were made and the result is the error string of the combine step
C16_Witness ==
    /\ Chunked
    /\ ~out.result.raised
    /\ Len(client_calls) = 3
    /\ client_calls[1].outcome = Failure(ApiFail)
    /\ client_calls[2].outcome = Reply(MockSummary)
    /\ client_calls[3].outcome = Failure(CombineError)
    /\ out.summaries = <<ErrorGeneratingSummary \o ApiFail, MockSummary>>
    /\ out.result.v = ErrorGeneratingSummary \o CombineError

\* ------------------------------------------------------------------------
\* C17: an open stream handed to parse_file, of bytes or of text and
\* whatever its name attribute, is parsed by the free-text path: parse_file
\* returns the table that parse_txt produces for the same content decoded
\* as text, and every result line of the content has exactly one record
\* in it.
\* ------------------------------------------------------------------------
\* parse_txt, lines 98-113, as a function of the lines: the dicts collected
\* from line n on
RECURSIVE ParseTxtFrom(_, _, _, _)
ParseTxtFrom(ls, n, map, recs) ==
    IF n > Len(ls) THEN recs
    ELSE LET info_match == InfoMatch(ls[n])
             result_match == ResultMatch(ls[n])
         IN  IF info_match.ok
             THEN ParseTxtFrom(ls, n + 1, MapUpdate(map, info_match.groups), recs)
             ELSE IF result_match.ok
                  THEN ParseTxtFrom(ls, n + 1, MapAfterGet(map, result_match.groups),
                         AppendRecord(recs, ResultRecord(map, result_match.groups)))
                  ELSE ParseTxtFrom(ls, n + 1, map, recs)

\* parse_txt(io.StringIO(content)): the table for the content as text
ParseTxtOfText(content) ==
    ParseTxtResult(
      ParseTxtFrom(ReadLines(FileInput("text", <<>>, NoTable, content)), 1,
                   EmptyDict, <<>>))

BracketedResultLines == UNION {BracketedResultLinesOf(tc) : tc \in AllCases}

\* the argument of parse_file is an open stream
StreamInput == file_input.kind \in {"text", "bytes"}

C17_StreamParsedAsText ==
    (StreamInput /\ Done) =>
      /\ pc = "returned"
      /\ ret = ParseTxtOfText(Input)
      /\ \A n \in 1..Len(Input) :
           Input[n] \in BracketedResultLines => Cardinality(RowsOfLine(n)) = 1

\* ------------------------------------------------------------------------
\* C18: a bracketed result line that carries both the type segment and the
\* error suffix, [<timestamp>] [RESULT] <test_case> [<module>] <status>
\* [type=<test_type>] - <error>, yields a record whose error is the text
\* after " - "; the error of a record is empty only when its line has no
\* " - <error>" suffix.
\* ------------------------------------------------------------------------
\* the bracketed result lines that end with the suffix " - e"
BracketedResultsWithError(e) ==
    UNION {{WithError(l, e), WithError(WithType(l, ty), e)} :
             l \in {BracketedLine(tc, m, st) :
                      tc \in AllCases, m \in Modules, st \in StatusWords},
             ty \in Types}

C18_ErrorOfTypedLine ==
    ParsedText =>
      /\ \A n \in 1..Len(Input) : \A tc \in AllCases : \A m \in Modules :
         \A st \in StatusWords : \A ty \in Types : \A e \in Errors :
           Input[n] = WithError(WithType(BracketedLine(tc, m, st), ty), e) =>
             \E k \in 1..Len(ret.rows) :
               /\ RowsOfLine(n) = {k}
               /\ Field(ret.rows[k], "error") = PyStr(e)
      /\ \A k \in 1..Len(ret.rows) :
           Field(ret.rows[k], "error") = PyStr(<<>>) =>
             \A e \in Errors : Input[origin[k]] \notin BracketedResultsWithError(e)

\* ------------------------------------------------------------------------
\* C19: a decorated result line, [<timestamp>] (arrow) Result: <test_case>
\* | <status> | Module: <module>, with or without the type and error
\* segments, is recognised by the free-text path and yields exactly one
\* record with that test case, status and module.
\* ------------------------------------------------------------------------
C19_DecoratedLineRecord ==
    ParsedText =>
      \A n \in 1..Len(Input) : \A tc \in AllCases : \A st \in StatusWords :
      \A m \in Modules :
        Input[n] = DecoratedLine(tc, st, m) =>
          \E k \in 1..Len(ret.rows) :
            /\ RowsOfLine(n) = {k}
            /\ Field(ret.rows[k], "test_case") = PyStr(tc)
            /\ Field(ret.rows[k], "status") = PyStr(st)
            /\ Field(ret.rows[k], "module") = PyStr(m)

\* ------------------------------------------------------------------------
\* C20: in the delimited-table path the column names are lower-cased and
\* trimmed before the required columns are looked for: a header that spells
\* a required column in another letter case or with blanks around it
\* (Status, " test_case ") is accepted, and the column is returned under
\* its canonical name with the cells it held.
\* ------------------------------------------------------------------------
\* the name of a header column, lower-cased and trimmed
CanonicalName(col) ==
    CASE col = "Status" -> "status"
      [] col = " test_case " -> "test_case"
      [] OTHER -> col

\* the position in the header of the column that is spelled like col
SpelledLike(col) ==
    CHOOSE c \in 1..Len(file_input.table.header) :
      CanonicalName(file_input.table.header[c]) = col

C20_ColumnNamesNormalised ==
    /\ CsvInput
    /\ Done
    /\ RequiredColumns \subseteq
         {CanonicalName(file_input.table.header[c]) :
            c \in 1..Len(file_input.table.header)}
    =>
      /\ pc = "returned"
      /\ ret.columns = EXPECTED_COLUMNS
      /\ Len(ret.rows) = Len(file_input.table.rows)
      /\ \A n \in 1..Len(ret.rows) : \A col \in RequiredColumns :
           LET cell == file_input.table.rows[n][SpelledLike(col)]
           IN  cell \notin NaValues => Field(ret.rows[n], col) = PyStr(cell)

\* ------------------------------------------------------------------------
\* C21: the correlation map is last-write-wins and is never consumed.  At
\* every point of the free-text path no error has been raised, every record
\* collected so far for a Result line for test case T that has an
\* Informational line for T before it carries the type declared by the
\* latest such line, and two records of Result lines for T with no
\* Informational line for T between them carry the same type.
\* ------------------------------------------------------------------------
\* the records collected so far, and once parse_file returned, its rows
Emitted == IF pc = "returned" THEN ret.rows ELSE results

\* the bracketed Result lines of each test case, as a table
ResultLinesByCase == [tc \in AllCases |-> BracketedResultLinesOf(tc)]

\* row k of the collected records is the record of a Result line for tc
RecordOfCase(k, tc) == Input[origin[k]] \in ResultLinesByCase[tc]

C21_MapIsLastWriteWinsAndKept ==
    (FreeTextInput /\ pc # "call") =>
      /\ pc # "raised"
      /\ \A k \in 1..Len(Emitted) : \A tc \in AllCases :
           (RecordOfCase(k, tc) /\ InfoBefore(origin[k], tc) # {}) =>
             Field(Emitted[k], "test_type") =
               PyStr(DeclaredType(SetMax(InfoBefore(origin[k], tc)), tc))
      /\ \A j, k \in 1..Len(Emitted) : \A tc \in AllCases :
           ( /\ RecordOfCase(j, tc) /\ RecordOfCase(k, tc)
             /\ InfoBefore(origin[j], tc) = InfoBefore(origin[k], tc) ) =>
             Field(Emitted[j], "test_type") = Field(Emitted[k], "test_type")

\* one Informational line for t1, then two Result lines for t1: both
\* records carry the declared type
C21_Witness ==
    /\ ParsedText
    /\ Input = << InfoLine(CaseT1, TypeSystem),
                  BracketedLine(CaseT1, ModCore, PASS),
                  BracketedLine(CaseT1, ModCore, PASS) >>
    /\ Len(ret.rows) = 2
    /\ Field(ret.rows[1], "test_type") = PyStr(TypeSystem)
    /\ Field(ret.rows[2], "test_type") = PyStr(TypeSystem)

\* ------------------------------------------------------------------------
\* C22: a record is fixed when its Result line is processed.  Every step of
\* the loop over the lines, whatever the line is, leaves each record
\* collected before it as it was and in its place, so an Informational line
\* for T after a Result line for T does not alter the earlier record; and
\* the returned table carries those records field by field.
\* ------------------------------------------------------------------------
\* the records collected so far are, unchanged, the first of the records
\* after the step
EarlierRecordsKept ==
    /\ Len(results') >= Len(results)
    /\ \A k \in 1..Len(results) : results'[k] = results[k]

\* the table returned by the step has the collected records as its rows
ReturnedAsCollected ==
    /\ Len(ret'.rows) = Len(results)
    /\ \A k \in 1..Len(results) : \A col \in SeqSet(EXPECTED_COLUMNS) :
         Field(ret'.rows[k], col) = Field(results[k], col)

C22_EmittedRecordsAreFixed ==
    [][ pc = "loop" =>
          /\ EarlierRecordsKept
          /\ pc' = "returned" => ReturnedAsCollected ]_vars

\* a Result line for t1, then an Informational line for t1, then a second
\* Result line for t1: the first record keeps the empty type it was emitted
\* with, the second carries the declared type
C22_Witness ==
    /\ ParsedText
    /\ Input = << BracketedLine(CaseT1, ModCore, PASS),
                  InfoLine(CaseT1, TypeSystem),
                  BracketedLine(CaseT1, ModCore, PASS) >>
    /\ Len(ret.rows) = 2
    /\ Field(ret.rows[1], "test_type") = PyStr(<<>>)
    /\ Field(ret.rows[2], "test_type") = PyStr(TypeSystem)

\* ------------------------------------------------------------------------
\* C23: the client calls of generate_llm_summary on a ranking of n rows.
\* With the LLM disabled no call is made and the disabled message is
\* returned.  With it enabled: for n = 0 no call is made and the result is
\* "No failures to summarize."; for 0 < n <= chunk_size one summarization
\* call is made, over all n rows, and no combine call; for n > chunk_size
\* the calls are ceil(n / chunk_size) summarization calls, whose chunks have
\* one to chunk_size rows each and, put end to end in the order of the
\* calls, are the ranking, and then one combine call, whose reply is the
\* result.
\* ------------------------------------------------------------------------
\* ceil(n / d)
Ceil(n, d) == CHOOSE k \in 0..n : (k - 1) * d < n /\ n <= k * d

\* the rows of the requests, put end to end
RECURSIVE RowsOfRequests(_)
RowsOfRequests(made) ==
    IF made = <<>> THEN <<>>
    ELSE Head(made).request.rows \o RowsOfRequests(Tail(made))

\* the call is answered, and the answer is what the function returned
ReplyIsResult(call) == call.outcome.ok => out.result.v = call.outcome.text

C23_CallsFollowTheChunks ==
    op = "generate_llm_summary" =>
      LET ranking == args.error_summary.rows
          n == Len(ranking)
          chunk_size == args.chunk_size
          total_chunks == Ceil(n, chunk_size)
      IN  /\ ~out.result.raised
          /\ no_llm =>
               /\ client_calls = <<>>
               /\ out.result.v = LlmDisabledMessage
          /\ (~no_llm /\ n = 0) =>
               /\ client_calls = <<>>
               /\ out.result.v = NoFailuresMessage
          /\ (~no_llm /\ 0 < n /\ n <= chunk_size) =>
               /\ Len(client_calls) = 1
               /\ client_calls[1].request.kind = "chunk"
               /\ client_calls[1].request.rows = ranking
               /\ ReplyIsResult(client_calls[1])
          /\ (~no_llm /\ n > chunk_size) =>
               /\ Len(client_calls) = total_chunks + 1
               /\ \A i \in 1..total_chunks :
                    /\ client_calls[i].request.kind = "chunk"
                    /\ Len(client_calls[i].request.rows) \in 1..chunk_size
               /\ RowsOfRequests(SubSeq(client_calls, 1, total_chunks)) = ranking
               /\ client_calls[total_chunks + 1].request.kind = "combine"
               /\ ReplyIsResult(client_calls[total_chunks + 1])

\* a ranking of three errors in chunks of two: a call for the first two
\* rows, a call for the third, then the combine call, whose reply is the
\* result
C23_Witness ==
    /\ op = "generate_llm_summary"
    /\ ~no_llm
    /\ args.chunk_size = 2
    /\ Len(args.error_summary.rows) = 3
    /\ Len(client_calls) = 3
    /\ client_calls[1].request.rows = SubSeq(args.error_summary.rows, 1, 2)
    /\ client_calls[2].request.rows = SubSeq(args.error_summary.rows, 3, 3)
    /\ client_calls[3].request.kind = "combine"
    /\ client_calls[3].outcome = Reply(MockSummary)
    /\ out.result = Returned(MockSummary)

\* ------------------------------------------------------------------------
\* C24: the table returned by the free-text path holds the records in the
\* order of the Result lines that produced them.  Every line of the input
\* that matches a result grammar has exactly one record, and for two such
\* lines i < j the record of line i stands before the record of line j.
\* ------------------------------------------------------------------------
\* the lines of the input that match a result grammar
ResultLines == {n \in 1..Len(Input) : Input[n] \in ResultGrammarLines}

\* the records of an earlier result line stand before those of a later one
RecordsFollowLineOrder ==
    \A i, j \in ResultLines :
      i < j => \A k \in RowsOfLine(i) : \A l \in RowsOfLine(j) : k < l

C24_OneRecordPerResultLineInOrder ==
    ParsedText =>
      /\ Len(origin) = Len(ret.rows)
      /\ RecordsFollowLineOrder
      /\ \A n \in ResultLines : Cardinality(RowsOfLine(n)) = 1

\* ------------------------------------------------------------------------
\* C25: when summarize_log is given a table that the parser returned, from
\* the delimited-table path or from the free-text path, the counts of the
\* failure ranking add up to failed, and every FAIL row, one with an empty
\* or absent error included, is counted in exactly one entry of the
\* ranking: the entry of its error.
\* ------------------------------------------------------------------------
RECURSIVE SumOfCounts(_)
SumOfCounts(ranking) ==
    IF ranking = <<>> THEN 0
    ELSE Head(ranking).count + SumOfCounts(Tail(ranking))

\* the entries of the ranking that count row n of the table
EntriesCounting(n) ==
    {i \in 1..Len(Ranking) : Ranking[i].error = Table[n]["error"]}

C25_RankingCountsSumToFailed ==
    (pc = "returned" /\ ReturnedFrom("summarize_log")) =>
      /\ Table = ret.rows
      /\ SumOfCounts(Ranking) = out.result.v.failed
      /\ \A n \in RowsOfStatus(FAIL) : Cardinality(EntriesCounting(n)) = 1

====
